---- MODULE Spec2Model ----
(***************************************************************************)
(* Server-side battle (3-21 player) room store and match state machine of  *)
(* whgame_Tetris, modelled from src/server/roomManager.js (the socketMulti *)
(* part, lines 146-635).                                                   *)
(*                                                                         *)
(* One action per socket event handler.  The server is single threaded, so *)
(* each handler runs to completion and is one atomic step.                 *)
(***************************************************************************)
EXTENDS Integers, Sequences, FiniteSets, TLC

\* ---------------------------------------------------------------- bounds
NumSockets   == 3   \* connections the server ever sees (Spec)
MaxRooms     == 1   \* rooms ever created (Spec); room ids are fresh uuids
StoreSockets == 2   \* connections the server ever sees (SpecStore)
StoreRooms   == 2   \* rooms ever created (SpecStore)
MaxReporters == 1   \* sockets 1..MaxReporters report scores and boards
MaxScore     == 1   \* largest score value a client reports
LowScore     == 2   \* a client may also report the negative score -LowScore
MaxSeed      == 1   \* seeds are drawn from 0..MaxSeed instead of 0..2^31-2
MaxLines     == 1   \* largest garbage line count a client reports
AliveSlack   == 0   \* how far alivePlayers of a waiting room may exceed NumSockets
DuelSockets  == 3   \* connections the server ever sees (SpecDuel)
DuelRooms    == 1   \* duel rooms ever created (SpecDuel)
MaxWins      == 2   \* largest win tally of a player in a duel room
MaxDbWins    == 1   \* largest number of 100-point awards a user gets in the database
MaxCalls     == 5   \* method calls made on a game (SpecGame)
MaxKickCalls == 6   \* method calls made on a game (SpecKick)
MaxLoopCalls == 5   \* calls and loop ticks of a game (SpecLoop)
MaxReports   == 4   \* game starts and score reports of a client (SpecReport)

\* JavaScript null (seed, rank, board).  Numbers of the program are >= 0.
NULL == -1

\* const attackThreshold = 200
AttackThreshold == 200

\* this.dropInterval = 1000 (milliseconds)
DropInterval == 1000

\* CONSTANTS.COLS, CONSTANTS.ROWS
COLS == 10
ROWS == 20

MinPlayers == 3
MaxPlayers == 21

Sockets   == 1..NumSockets
RoomIds   == 1..(IF MaxRooms > StoreRooms THEN MaxRooms ELSE StoreRooms)
Reporters == 1..MaxReporters
Scores    == {-LowScore} \cup 0..MaxScore
Seeds     == 0..MaxSeed
Lines     == 1..MaxLines
MaxAlive  == NumSockets + AliveSlack
\* values a client may pass to create_multi_room (0 stands for any falsy or
\* unparsable value, for which parseInt(..) || 3 yields 3)
MaxPlayersInputs == {0, 1, 22}
\* an abstract non-null board snapshot
SomeBoard == 1

VARIABLES
    multiRooms,   \* Map roomId -> room, as the sequence of rooms in insertion order
    conn,         \* per socket: "new" (not yet connected), "open", "closed"
    created,      \* number of rooms created so far (source of fresh ids)
    matchLog,     \* per room id: roster size at start and ranks assigned since
    duelRooms,    \* roomManager.rooms: the duel rooms in insertion order
    duelCreated,  \* number of duel rooms created so far (source of fresh ids)
    dbWins,       \* per user: number of 100-point awards written to users.score
    duelLog,      \* per duel room id: wins tallied since the room's last game_ready
    game,         \* the local (non-mirror) TetrisGame of a client
    calls,        \* number of method calls made on game so far
    pending,      \* loop callbacks requested from requestAnimationFrame, not yet run
    lastSentScore, \* the client's score callback: the score of its last report
    outbox        \* the actions the client's score callback emitted on its last report

vars == <<multiRooms, conn, created, matchLog, duelRooms, duelCreated, dbWins, duelLog,
          game, calls, pending, lastSentScore, outbox>>

\* the state of the battle-room server and that of the duel-room server
multiVars == <<multiRooms, created, matchLog>>
duelVars  == <<duelRooms, duelCreated, dbWins, duelLog>>
\* the state of a client's game
gameVars  == <<game, calls, pending, lastSentScore, outbox>>

\* ------------------------------------------------------- helper operators
Min(a, b) == IF a < b THEN a ELSE b
Max(a, b) == IF a > b THEN a ELSE b

\* every connection of any specification
AllSockets == 1..Max(Max(NumSockets, StoreSockets), DuelSockets)

\* the least of a set of indices, 0 when the set is empty: where a loop over a
\* Map or an Object that stops at its first hit stops
FirstIdx(S) ==
    IF S = {} THEN 0 ELSE CHOOSE i \in S : \A j \in S : i <= j

\* seq without its i-th element (delete obj[key] keeps the order of the rest)
RemoveAt(seq, i) == [k \in 1..(Len(seq) - 1) |-> IF k < i THEN seq[k] ELSE seq[k + 1]]

\* room.players[socketId]: position of the socket's entry in the roster, 0 if absent
PlayerIdx(room, s) ==
    FirstIdx({i \in 1..Len(room.players) : room.players[i].sid = s})

HasPlayer(room, s) == PlayerIdx(room, s) # 0

\* Object.keys(room.players).length
PlayerCount(room) == Len(room.players)

\* for (const [roomId, room] of multiRooms) if (room.players[socket.id]) ...
\* index of the first room, in Map order, whose roster holds the socket
FindRoomIdx(rooms, s) ==
    FirstIdx({i \in 1..Len(rooms) : HasPlayer(rooms[i], s)})

\* multiRooms.get(roomId)
GetRoomIdx(rooms, id) ==
    FirstIdx({i \in 1..Len(rooms) : rooms[i].id = id})

\* a fresh player entry (create_multi_room, join_multi_room)
NewPlayer(s) == [sid |-> s, score |-> 0, alive |-> TRUE, rank |-> NULL, board |-> NULL]

\* -------------------------------------------------------------- messages
ToSocket(s)      == [kind |-> "socket", room |-> NULL, sock |-> s]
ToRoom(id)       == [kind |-> "room", room |-> id, sock |-> NULL]
ToOthers(id, s)  == [kind |-> "others", room |-> id, sock |-> s]
ToLobby          == [kind |-> "lobby", room |-> NULL, sock |-> NULL]
ToAll            == [kind |-> "all", room |-> NULL, sock |-> NULL]

Msg(to, ev, data) == [to |-> to, ev |-> ev, data |-> data]

\* getPlayerList(room)
getPlayerList(room) ==
    [i \in 1..Len(room.players) |->
        [socketId |-> room.players[i].sid,
         score    |-> room.players[i].score,
         alive    |-> room.players[i].alive,
         rank     |-> room.players[i].rank,
         isHost   |-> room.players[i].sid = room.hostSocketId]]

\* broadcastMultiRoomList(io)
broadcastMultiRoomList(rooms) ==
    Msg(ToLobby, "multi_room_list",
        [i \in 1..Len(rooms) |->
            [id |-> rooms[i].id, maxPlayers |-> rooms[i].maxPlayers,
             playerCount |-> PlayerCount(rooms[i]), status |-> rooms[i].status]])

SystemChat(id) == Msg(ToRoom(id), "chat_message", "system")

\* ------------------------------------------------------------ checkGameEnd
\* JavaScript ToNumber of a rank inside the comparator a.rank - b.rank
ToNumber(x) == IF x = NULL THEN 0 ELSE x

\* comparator of the rankings sort
CompareRank(a, b) == ToNumber(a.rank) - ToNumber(b.rank)

\* e placed behind every element of the sorted sequence that does not compare
\* greater than it (Array.prototype.sort is stable)
RECURSIVE InsertByRank(_, _)
InsertByRank(sorted, e) ==
    IF sorted = <<>> THEN <<e>>
    ELSE IF CompareRank(sorted[Len(sorted)], e) <= 0 THEN Append(sorted, e)
    ELSE Append(InsertByRank(SubSeq(sorted, 1, Len(sorted) - 1), e), sorted[Len(sorted)])

\* a sort that leaves the array in roster order
SortByRankMut(seq) == seq

\* .sort((a, b) => a.rank - b.rank)
RECURSIVE SortByRank(_)
SortByRank(seq) ==
    IF seq = <<>> THEN <<>>
    ELSE InsertByRank(SortByRank(SubSeq(seq, 1, Len(seq) - 1)), seq[Len(seq)])

\* the rankings array of multi_game_finished
Rankings(room) ==
    SortByRank([i \in 1..Len(room.players) |->
        [socketId |-> room.players[i].sid,
         rank     |-> room.players[i].rank,
         score    |-> room.players[i].score]])

\* the first roster entry that is still alive, 0 when there is none
FirstAliveIdx(room) ==
    FirstIdx({i \in 1..Len(room.players) : room.players[i].alive})

\* the roster after the last survivor was given rank 1
CrownWinner(room) ==
    LET w == FirstAliveIdx(room)
    IN  IF w = 0 THEN room.players
        ELSE [room.players EXCEPT ![w].alive = FALSE, ![w].rank = 1]

\* an end test that waits until nobody is alive
GameEndsMut(room) == room.alivePlayers < 1 /\ room.status = "playing"

\* whether checkGameEnd ends the match
GameEnds(room) == room.alivePlayers <= 1 /\ room.status = "playing"

\* checkGameEnd(room, io, roomId): the room afterwards, the messages emitted and
\* the ranks handed out
checkGameEnd(room) ==
    IF GameEnds(room)
    THEN LET w   == FirstAliveIdx(room)
             fin == [room EXCEPT !.status = "finished", !.players = CrownWinner(room)]
         IN  [room   |-> fin,
              msgs   |-> <<Msg(ToRoom(room.id), "multi_game_finished", Rankings(fin)),
                           SystemChat(room.id)>>,
              ranked |-> IF w = 0 THEN <<>> ELSE <<1>>]
    ELSE [room |-> room, msgs |-> <<>>, ranked |-> <<>>]

\* ------------------------------------------------------ selectAttackTarget
\* sequence of the elements of seq that satisfy Test, in order
RECURSIVE FilterSeq(_, _)
FilterSeq(seq, keep) ==
    IF seq = <<>> THEN <<>>
    ELSE LET rest == FilterSeq(Tail(seq), keep)
         IN  IF Head(seq).sid \in keep THEN <<Head(seq)>> \o rest ELSE rest

\* a filter that forgets the alive flag
TargetsAnyone(room, attacker) ==
    FilterSeq(room.players,
              {room.players[i].sid : i \in {k \in 1..Len(room.players) :
                    room.players[k].sid # attacker}})

\* Object.entries(room.players).filter(([id, p]) => id !== attackerSocketId && p.alive)
Targets(room, attacker) ==
    FilterSeq(room.players,
              {room.players[i].sid : i \in {k \in 1..Len(room.players) :
                    room.players[k].sid # attacker /\ room.players[k].alive}})

\* targets.reduce((sum, [_, p]) => sum + p.score + 1, 0)
RECURSIVE TotalScore(_)
TotalScore(targets) ==
    IF targets = <<>> THEN 0 ELSE Head(targets).score + 1 + TotalScore(Tail(targets))

\* the weighted loop; rand is kept in halves (rand2 = 2 * rand) so that values
\* strictly between two integers are drawn too
RECURSIVE WeightedPick(_, _, _)
WeightedPick(targets, i, rand2) ==
    IF i > Len(targets) THEN targets[Len(targets)].sid
    ELSE LET r == rand2 - 2 * (targets[i].score + 1)
         IN  IF r <= 0 THEN targets[i].sid ELSE WeightedPick(targets, i + 1, r)

\* the values of 2 * rand, for rand = Math.random() * totalScore with
\* 0 <= Math.random() < 1 (totalScore is below 1 when scores are negative)
Rand2s(totalScore) ==
    IF totalScore > 0 THEN 0..(2 * totalScore - 1)
    ELSE (2 * totalScore + (IF totalScore < 0 THEN 1 ELSE 0))..0

\* the draws selectAttackTarget can make for a room: the branch taken, the
\* index of the uniform branch and the value rand of the weighted branch
Draws(room, attacker) ==
    LET t == Targets(room, attacker)
    IN  IF t = <<>> THEN {[branch |-> "none", k |-> 0, rand2 |-> 0]}
        ELSE {[branch |-> "uniform", k |-> k, rand2 |-> 0] : k \in 1..Len(t)}
             \cup {[branch |-> "weighted", k |-> 0, rand2 |-> r] : r \in Rand2s(TotalScore(t))}

\* a selection whose weighted branch returns nothing
selectAttackTargetUniformOnly(room, attacker, draw) ==
    LET t == Targets(room, attacker)
    IN  IF Len(t) = 0 THEN NULL
        ELSE IF draw.branch = "uniform" THEN t[draw.k].sid
        ELSE NULL

\* selectAttackTarget(room, attackerSocketId) under the given draw
selectAttackTarget(room, attacker, draw) ==
    LET t == Targets(room, attacker)
    IN  IF Len(t) = 0 THEN NULL
        ELSE IF draw.branch = "uniform" THEN t[draw.k].sid
        ELSE WeightedPick(t, 1, draw.rand2)

\* ---------------------------------------------------------------- handlers
\* Each handler is an operator from the store (and the match log) before the
\* event to the store after it and the messages it emits, in order.

Result(rooms, log, msgs) == [rooms |-> rooms, log |-> log, msgs |-> msgs]

NoMatch == [size |-> 0, ranks |-> <<>>]

\* the match log of room id extended by the ranks handed out
LogRanks(log, id, ranked) == [log EXCEPT ![id].ranks = @ \o ranked]

\* io.on('connection'): the room list sent to the new socket
connection(rooms, s) ==
    <<[broadcastMultiRoomList(rooms) EXCEPT !.to = ToSocket(s)]>>

\* a clamp that forgets the upper limit
ClampNoUpper(req) == Max(MinPlayers, IF req = 0 THEN MinPlayers ELSE req)

\* Math.min(21, Math.max(3, parseInt(maxPlayers) || 3))
ClampMaxPlayers(req) ==
    Min(MaxPlayers, Max(MinPlayers, IF req = 0 THEN 3 ELSE req))

\* socket.on('create_multi_room'); roomId is the fresh id
create_multi_room(rooms, log, s, req, roomId) ==
    LET room == [id           |-> roomId,
                 hostSocketId |-> s,
                 maxPlayers   |-> ClampMaxPlayers(req),
                 players      |-> <<NewPlayer(s)>>,
                 status       |-> "waiting",
                 alivePlayers |-> 1,
                 seed         |-> NULL]
        after == Append(rooms, room)
    IN  Result(after, [log EXCEPT ![roomId] = NoMatch],
               <<Msg(ToSocket(s), "multi_room_created",
                     [roomId |-> roomId, maxPlayers |-> room.maxPlayers, isHost |-> TRUE]),
                 broadcastMultiRoomList(after)>>)

\* room.players[socket.id] = {...}: a new key goes to the end, an existing key
\* keeps its place and gets the new value
PutPlayer(players, s) ==
    LET i == FirstIdx({k \in 1..Len(players) : players[k].sid = s})
    IN  IF i = 0 THEN Append(players, NewPlayer(s)) ELSE [players EXCEPT ![i] = NewPlayer(s)]

\* the error join_multi_room answers with, "none" when the join is accepted
JoinError(rooms, roomId) ==
    LET i == GetRoomIdx(rooms, roomId)
    IN  IF i = 0 THEN "not_found"
        ELSE IF PlayerCount(rooms[i]) >= rooms[i].maxPlayers THEN "full"
        ELSE IF rooms[i].status # "waiting" THEN "started"
        ELSE "none"

\* socket.on('join_multi_room')
join_multi_room(rooms, log, s, roomId) ==
    IF JoinError(rooms, roomId) # "none"
    THEN Result(rooms, log, <<Msg(ToSocket(s), "room_error", JoinError(rooms, roomId))>>)
    ELSE LET i     == GetRoomIdx(rooms, roomId)
             room  == [rooms[i] EXCEPT !.players = PutPlayer(@, s), !.alivePlayers = @ + 1]
             after == [rooms EXCEPT ![i] = room]
         IN  Result(after, log,
                    <<Msg(ToSocket(s), "multi_room_joined",
                          [roomId |-> roomId, maxPlayers |-> room.maxPlayers,
                           isHost |-> FALSE, host |-> room.hostSocketId]),
                      Msg(ToRoom(roomId), "multi_player_list", getPlayerList(room)),
                      SystemChat(roomId),
                      broadcastMultiRoomList(after)>>)

\* a start test that forgets the host check
MayStartMut(room, s) == HasPlayer(room, s)

\* whether the start handler acts on this room for this socket
\* (room.players[socket.id] && room.hostSocketId === socket.id)
MayStart(room, s) == HasPlayer(room, s) /\ room.hostSocketId = s

\* the first room, in Map order, that the start handler acts on
FindHostedIdx(rooms, s) ==
    FirstIdx({i \in 1..Len(rooms) : MayStart(rooms[i], s)})

\* for (const player of Object.values(room.players)) { score = 0; alive = true; ... }
ResetPlayers(players) ==
    [k \in 1..Len(players) |-> NewPlayer(players[k].sid)]

\* the room after a successful start
StartedRoom(room, seed) ==
    [room EXCEPT !.status = "playing",
                 !.alivePlayers = PlayerCount(room),
                 !.seed = seed,
                 !.players = ResetPlayers(@)]

\* fewest players a match starts with (playerCount < 2 is refused)
MinToStart == 2

\* socket.on('start_multi_game'); seed is the value of Math.floor(Math.random() * 2147483647)
start_multi_game(rooms, log, s, seed) ==
    LET i == FindHostedIdx(rooms, s)
    IN  IF i = 0 THEN Result(rooms, log, <<>>)
        ELSE IF rooms[i].status # "waiting"
        THEN Result(rooms, log, <<Msg(ToSocket(s), "room_error", "in_progress")>>)
        ELSE IF PlayerCount(rooms[i]) < MinToStart
        THEN Result(rooms, log, <<Msg(ToSocket(s), "room_error", "need_two")>>)
        ELSE LET room  == StartedRoom(rooms[i], seed)
                 after == [rooms EXCEPT ![i] = room]
             IN  Result(after,
                        [log EXCEPT ![room.id] = [size |-> PlayerCount(room), ranks |-> <<>>]],
                        <<Msg(ToRoom(room.id), "multi_game_ready",
                              [seed |-> room.seed, players |-> getPlayerList(room)]),
                          SystemChat(room.id),
                          broadcastMultiRoomList(after)>>)

\* socket.on('multi_game_action'), data.type = 'board'
action_board(rooms, log, s, value) ==
    LET i == FindRoomIdx(rooms, s)
    IN  IF i = 0 THEN Result(rooms, log, <<>>)
        ELSE LET pi == PlayerIdx(rooms[i], s)
             IN  Result([rooms EXCEPT ![i].players[pi].board = value], log,
                        <<Msg(ToOthers(rooms[i].id, s), "multi_game_action",
                              [socketId |-> s, type |-> "board", value |-> value])>>)

\* socket.on('multi_game_action'), data.type = 'score'
action_score(rooms, log, s, value) ==
    LET i == FindRoomIdx(rooms, s)
    IN  IF i = 0 THEN Result(rooms, log, <<>>)
        ELSE LET pi == PlayerIdx(rooms[i], s)
             IN  Result([rooms EXCEPT ![i].players[pi].score = value], log,
                        <<Msg(ToOthers(rooms[i].id, s), "multi_game_action",
                              [socketId |-> s, type |-> "score", value |-> value])>>)

\* the room whose roster the garbage handler draws its target from
GarbageRoomIdx(rooms, s) == FindRoomIdx(rooms, s)

\* socket.on('multi_game_action'), data.type = 'garbage', under the given draw
action_garbage(rooms, log, s, value, draw) ==
    LET i == GarbageRoomIdx(rooms, s)
    IN  IF i = 0 THEN Result(rooms, log, <<>>)
        ELSE LET targetId == selectAttackTarget(rooms[i], s, draw)
             IN  IF targetId = NULL THEN Result(rooms, log, <<>>)
                 ELSE Result(rooms, log,
                        <<Msg(ToSocket(targetId), "multi_receive_garbage",
                              [fromSocketId |-> s, lines |-> value]),
                          Msg(ToRoom(rooms[i].id), "multi_attack_event",
                              [from |-> s, to |-> targetId, lines |-> value])>>)

\* an elimination that decrements before it assigns the rank
EliminateMut(room, pi) ==
    [room EXCEPT !.players[pi].alive = FALSE,
                 !.players[pi].rank = room.alivePlayers - 1,
                 !.alivePlayers = @ - 1]

\* an elimination that forgets alivePlayers--
EliminateKeepsCount(room, pi) ==
    [room EXCEPT !.players[pi].alive = FALSE,
                 !.players[pi].rank = room.alivePlayers]

\* the player is marked not-alive with rank = alivePlayers, then alivePlayers--
Eliminate(room, pi) ==
    [room EXCEPT !.players[pi].alive = FALSE,
                 !.players[pi].rank = room.alivePlayers,
                 !.alivePlayers = @ - 1]

\* the multi_player_eliminated payload
Eliminated(room, pi, reason) ==
    [socketId |-> room.players[pi].sid, rank |-> room.players[pi].rank, reason |-> reason]

\* the match log after an elimination in a room: ranks count for the match
\* only while it is being played
LogElimination(log, before, ranked) ==
    IF before.status = "playing" THEN LogRanks(log, before.id, ranked) ELSE log

\* a game_over branch without the if (player.alive) test
action_game_over_unguarded(rooms, log, s) ==
    LET i == FindRoomIdx(rooms, s)
    IN  IF i = 0 THEN Result(rooms, log, <<>>)
        ELSE LET pi  == PlayerIdx(rooms[i], s)
                 out == Eliminate(rooms[i], pi)
             IN  Result([rooms EXCEPT ![i] = out], log,
                        <<Msg(ToRoom(out.id), "multi_player_eliminated",
                              Eliminated(out, pi, "game_over"))>>)

\* socket.on('multi_game_action'), data.type = 'game_over'
action_game_over(rooms, log, s) ==
    LET i == FindRoomIdx(rooms, s)
    IN  IF i = 0 THEN Result(rooms, log, <<>>)
        ELSE LET pi == PlayerIdx(rooms[i], s)
             IN  IF ~rooms[i].players[pi].alive THEN Result(rooms, log, <<>>)
                 ELSE LET out == Eliminate(rooms[i], pi)
                          end == checkGameEnd(out)
                      IN  Result([rooms EXCEPT ![i] = end.room],
                                 LogElimination(log, rooms[i],
                                                <<out.players[pi].rank>> \o end.ranked),
                                 <<Msg(ToRoom(out.id), "multi_player_eliminated",
                                       Eliminated(out, pi, "game_over"))>> \o end.msgs)

\* whether a leaving player counts as eliminated
LeaverLoses(room, pi) == room.status = "playing" /\ room.players[pi].alive

\* the host after the socket left: the first remaining roster member
NextHost(room) == room.players[1].sid

\* handleMultiLeave(socket, io)
handleMultiLeave(rooms, log0, s) ==
    LET i == FindRoomIdx(rooms, s)
    IN  IF i = 0 THEN Result(rooms, log0, <<>>)
        ELSE
        LET room   == rooms[i]
            pi     == PlayerIdx(room, s)
            loses  == LeaverLoses(room, pi)
            out    == IF loses THEN Eliminate(room, pi) ELSE room
            end    == IF loses THEN checkGameEnd(out)
                      ELSE [room |-> room, msgs |-> <<>>, ranked |-> <<>>]
            elim   == IF loses
                      THEN <<Msg(ToOthers(room.id, s), "multi_player_eliminated",
                                 Eliminated(out, pi, "left"))>> \o end.msgs
                      ELSE <<>>
            left   == [end.room EXCEPT !.players = RemoveAt(@, pi)]
            logged == IF loses
                      THEN LogRanks(log0, room.id, <<out.players[pi].rank>> \o end.ranked)
                      ELSE log0
            log    == IF Len(left.players) = 0
                      THEN [logged EXCEPT ![room.id] = NoMatch]
                      ELSE logged
            moved  == IF left.hostSocketId = s /\ Len(left.players) > 0
                      THEN [left EXCEPT !.hostSocketId = NextHost(left)]
                      ELSE left
            after  == IF Len(left.players) = 0
                      THEN RemoveAt(rooms, i)
                      ELSE [rooms EXCEPT ![i] = moved]
            notes  == IF Len(left.players) = 0 THEN <<>>
                      ELSE (IF left.hostSocketId = s
                            THEN <<Msg(ToRoom(room.id), "multi_host_changed", moved.hostSocketId)>>
                            ELSE <<>>)
                           \o (IF moved.status = "waiting"
                               THEN <<Msg(ToRoom(room.id), "multi_player_list", getPlayerList(moved))>>
                               ELSE <<>>)
                           \o <<SystemChat(room.id)>>
        IN  Result(after, log, elim \o notes \o <<broadcastMultiRoomList(after)>>)

\* socket.on('multi_chat_message')
multi_chat_message(rooms, log, s) ==
    LET i == FindRoomIdx(rooms, s)
    IN  Result(rooms, log,
               IF i = 0 THEN <<>>
               ELSE <<Msg(ToRoom(rooms[i].id), "chat_message", [username |-> s])>>)

\* a reset test that forgets the status check
MayRestartAnyStatus(room, s) == TRUE

\* a reset test that also demands the host
MayRestartHostOnly(room, s) == room.status = "finished" /\ room.hostSocketId = s

\* whether restart_multi_game resets the room for this requester
MayRestart(room, s) == room.status = "finished"

\* a reset that forgets to clear the seed
RestartedRoomKeepsSeed(room) ==
    [room EXCEPT !.status = "waiting",
                 !.alivePlayers = PlayerCount(room),
                 !.players = ResetPlayers(@)]

\* the room after a reset
RestartedRoom(room) ==
    [room EXCEPT !.status = "waiting",
                 !.seed = NULL,
                 !.alivePlayers = PlayerCount(room),
                 !.players = ResetPlayers(@)]

\* socket.on('restart_multi_game')
restart_multi_game(rooms, log, s) ==
    LET i == FindRoomIdx(rooms, s)
    IN  IF i = 0 THEN Result(rooms, log, <<>>)
        ELSE IF ~MayRestart(rooms[i], s)
        THEN Result(rooms, log, <<Msg(ToSocket(s), "room_error", "not_finished")>>)
        ELSE LET room  == RestartedRoom(rooms[i])
                 after == [rooms EXCEPT ![i] = room]
             IN  Result(after, [log EXCEPT ![room.id] = NoMatch],
                        <<Msg(ToRoom(room.id), "multi_game_reset", NULL),
                          Msg(ToRoom(room.id), "multi_player_list", getPlayerList(room)),
                          Msg(ToRoom(room.id), "chat_message", [requester |-> s]),
                          broadcastMultiRoomList(after)>>)


\* ------------------------------------------------- duel rooms (socket.js)
\* A duel room is [id, players, status, scores]: players is the sequence of the
\* roster's socket ids in key order, scores the win tally per socket id (an
\* absent key reads as 0: room.scores[id] || 0).
NoScores == [s \in AllSockets |-> 0]

\* roomManager.findPlayerRoom(socketId): index of the first room holding it, 0 if none
findPlayerRoom(rooms, s) ==
    FirstIdx({i \in 1..Len(rooms) : \E k \in 1..Len(rooms[i].players) : rooms[i].players[k] = s})

\* roomManager.getRoom(roomId): its index, 0 if there is none
getRoom(rooms, roomId) ==
    FirstIdx({i \in 1..Len(rooms) : rooms[i].id = roomId})

\* roomManager.getPlayerCount(roomId)
getPlayerCount(rooms, roomId) ==
    IF getRoom(rooms, roomId) = 0 THEN 0 ELSE Len(rooms[getRoom(rooms, roomId)].players)

\* roomManager.addPlayer: room.players[socketId] = playerData (an existing key
\* keeps its place)
addPlayer(room, s) ==
    IF \E k \in 1..Len(room.players) : room.players[k] = s THEN room
    ELSE [room EXCEPT !.players = Append(@, s)]

\* roomManager.removePlayer: delete room.players[socketId]
removePlayer(room, s) ==
    [room EXCEPT !.players =
        RemoveAt(@, FirstIdx({k \in 1..Len(room.players) : room.players[k] = s}))]

\* roomManager.getAllRooms() as sent in room_list
getAllRooms(rooms) == rooms

\* broadcastSystemMessage(io, roomId, text)
broadcastSystemMessage(roomId) == Msg(ToRoom(roomId), "chat_message", "system")

\* what a duel handler does: the store, the database tally and the messages
DuelResult(rooms, db, msgs) == [rooms |-> rooms, db |-> db, msgs |-> msgs]

\* io.on('connection') of socket.js
duel_connection(rooms, db, s) ==
    DuelResult(rooms, db, <<Msg(ToAll, "online_users", NULL),
                            Msg(ToSocket(s), "room_list", getAllRooms(rooms))>>)

\* socket.on('create_room')
create_room(rooms, db, s, roomId) ==
    LET room  == [id |-> roomId, players |-> <<s>>, status |-> "waiting", scores |-> NoScores]
        after == Append(rooms, room)
    IN  DuelResult(after, db, <<Msg(ToSocket(s), "room_created", roomId),
                                Msg(ToLobby, "room_list", getAllRooms(after))>>)

\* a join test that forgets the capacity check
DuelJoinErrorNoFull(rooms, roomId) ==
    IF getRoom(rooms, roomId) = 0 THEN "not_found"
    ELSE IF rooms[getRoom(rooms, roomId)].status # "waiting" THEN "started"
    ELSE "none"

\* the refusal of join_room, "none" when the join is accepted
DuelJoinError(rooms, roomId) ==
    IF getRoom(rooms, roomId) = 0 THEN "not_found"
    ELSE IF getPlayerCount(rooms, roomId) >= 2 THEN "full"
    ELSE IF rooms[getRoom(rooms, roomId)].status # "waiting" THEN "started"
    ELSE "none"

\* whether join_room announces the start (roomManager.getPlayerCount(roomId) === 2)
DuelReady(room) == Len(room.players) = 2

\* socket.on('join_room')
join_room(rooms, db, s, roomId, seed) ==
    IF DuelJoinError(rooms, roomId) # "none"
    THEN DuelResult(rooms, db, <<Msg(ToSocket(s), "room_error", DuelJoinError(rooms, roomId))>>)
    ELSE LET i     == getRoom(rooms, roomId)
             room  == addPlayer(rooms[i], s)
             after == [rooms EXCEPT ![i] = room]
         IN  DuelResult(after, db,
                 <<Msg(ToSocket(s), "room_joined", roomId),
                   Msg(ToRoom(roomId), "player_joined", s)>>
                 \o (IF DuelReady(room)
                     THEN <<Msg(ToRoom(roomId), "game_ready", seed)>> ELSE <<>>)
                 \o <<Msg(ToLobby, "room_list", getAllRooms(after))>>)

\* an emptiness test that never sees an empty roster
isRoomEmptyNever(room) == Len(room.players) < 0

\* roomManager.isRoomEmpty(roomId): getPlayerCount(roomId) === 0
isRoomEmpty(room) == Len(room.players) = 0

\* handleLeave(socket, io)
handleLeave(rooms, db, s) ==
    LET i == findPlayerRoom(rooms, s)
    IN  IF i = 0 THEN DuelResult(rooms, db, <<>>)
        ELSE LET left == removePlayer(rooms[i], s)
             IN  IF isRoomEmpty(left)
                 THEN LET after == RemoveAt(rooms, i)
                      IN  DuelResult(after, db, <<Msg(ToLobby, "room_list", getAllRooms(after))>>)
                 ELSE LET room  == [left EXCEPT !.status = "waiting", !.scores = NoScores]
                          after == [rooms EXCEPT ![i] = room]
                      IN  DuelResult(after, db,
                              <<Msg(ToRoom(room.id), "player_left", NULL),
                                broadcastSystemMessage(room.id),
                                Msg(ToLobby, "room_list", getAllRooms(after))>>)

\* Object.keys(room.players).find(id => id !== socket.id), NULL when there is none
WinnerId(room, s) ==
    LET k == FirstIdx({j \in 1..Len(room.players) : room.players[j] # s})
    IN  IF k = 0 THEN NULL ELSE room.players[k]

\* socket.on('game_action'); dbOk tells whether the UPDATE of users.score succeeds
game_action(rooms, db, s, type, dbOk) ==
    LET i == findPlayerRoom(rooms, s)
    IN  IF i = 0 THEN DuelResult(rooms, db, <<>>)
        ELSE LET room  == rooms[i]
                 relay == Msg(ToOthers(room.id, s), "game_action", type)
                 w     == WinnerId(room, s)
             IN  IF type = "game_over" /\ w # NULL
                 THEN DuelResult([rooms EXCEPT ![i].scores[w] = @ + 1],
                                 IF dbOk THEN [db EXCEPT ![w] = @ + 1] ELSE db,
                                 <<relay, broadcastSystemMessage(room.id)>>)
                 ELSE DuelResult(rooms, db, <<relay>>)

\* socket.on('chat_message')
chat_message(rooms, db, s) ==
    LET i == findPlayerRoom(rooms, s)
    IN  DuelResult(rooms, db,
            IF i = 0 THEN <<>> ELSE <<Msg(ToRoom(rooms[i].id), "chat_message", s)>>)

\* socket.on('game_reset')
game_reset(rooms, db, s, seed) ==
    LET i == findPlayerRoom(rooms, s)
    IN  IF i = 0 THEN DuelResult(rooms, db, <<>>)
        ELSE DuelResult([rooms EXCEPT ![i].status = "playing"], db,
                        <<Msg(ToRoom(rooms[i].id), "game_reset", NULL),
                          Msg(ToRoom(rooms[i].id), "game_ready", seed),
                          broadcastSystemMessage(rooms[i].id)>>)

\* ------------------------------------- piece simulation engine (tetris.js)
\* A game is [board, piece, nextPiece, pos, score, gameOver, dropCounter].  The
\* board is the sequence of its rows from the top, a row the sequence of its
\* cells from the left; coordinates are the program's, counted from 0.
\* Each method is an operator from the game before the call (and the values its
\* random draws return) to the game after it and the callbacks it invokes, in
\* order; every callback is taken to be registered.

\* the 7 shape matrices
PIECES ==
    << << <<0, 1, 0>>, <<1, 1, 1>>, <<0, 0, 0>> >>,
       << <<2, 2>>, <<2, 2>> >>,
       << <<0, 3, 3>>, <<3, 3, 0>>, <<0, 0, 0>> >>,
       << <<4, 4, 0>>, <<0, 4, 4>>, <<0, 0, 0>> >>,
       << <<0, 5, 0, 0>>, <<0, 5, 0, 0>>, <<0, 5, 0, 0>>, <<0, 5, 0, 0>> >>,
       << <<0, 6, 0>>, <<0, 6, 0>>, <<6, 6, 0>> >>,
       << <<0, 7, 0>>, <<0, 7, 0>>, <<0, 7, 7>> >> >>

\* what a method does: the game afterwards and the callbacks invoked
Outcome(g, events) == [game |-> g, events |-> events]

\* a callback invocation
Call(name, arg) == [name |-> name, arg |-> arg]

\* createBoard(): ROWS rows of COLS zeros
createBoard == [y \in 1..ROWS |-> [x \in 1..COLS |-> 0]]

\* this.piece = null: no matrix
NoPiece == <<>>

\* the game a constructor call leaves (not remote)
NewGame ==
    [board |-> createBoard, piece |-> NoPiece, nextPiece |-> NoPiece,
     pos |-> [x |-> 0, y |-> 0], score |-> 0, gameOver |-> FALSE, dropCounter |-> 0,
     dropInterval |-> DropInterval, lastTime |-> 0]

\* new TetrisGame(canvas, false, seed): the constructor has two parameters, a
\* third argument is not read
newTetrisGame(seed) == NewGame

\* randomPiece() when Math.floor(Math.random() * PIECES.length) is id
randomPiece(id) == PIECES[id + 1]

\* reset(); the two draws are those of nextPiece and of piece, in this order
reset(g, idNext, idPiece) ==
    LET after == [g EXCEPT !.board = createBoard, !.score = 0, !.gameOver = FALSE,
                           !.dropInterval = DropInterval, !.dropCounter = 0,
                           !.nextPiece = randomPiece(idNext),
                           !.piece = randomPiece(idPiece),
                           !.pos = [x |-> 3, y |-> 0]]
    IN  Outcome(after, <<Call("onScore", 0), Call("onNextPiece", after.nextPiece)>>)

\* (board[y] && board[y][x]) !== 0: the cell is outside the board or occupied
Blocked(board, y, x) ==
    IF y < 0 \/ y >= Len(board) THEN TRUE
    ELSE IF x < 0 \/ x >= Len(board[y + 1]) THEN TRUE
    ELSE board[y + 1][x + 1] # 0

\* collide(board, piece, offset)
collide(board, piece, offset) ==
    \E y \in 0..(Len(piece) - 1) : \E x \in 0..(Len(piece[y + 1]) - 1) :
        piece[y + 1][x + 1] # 0 /\ Blocked(board, y + offset.y, x + offset.x)

\* the value merge leaves in cell (y, x); a cell right of the row's end that
\* merge does not write stays unset (NULL)
MergedCell(board, piece, offset, y, x) ==
    LET py == y - offset.y
        px == x - offset.x
    IN  IF /\ py >= 0 /\ py < Len(piece)
           /\ px >= 0 /\ px < Len(piece[py + 1])
           /\ piece[py + 1][px + 1] # 0
        THEN piece[py + 1][px + 1]
        ELSE IF x < Len(board[y + 1]) THEN board[y + 1][x + 1] ELSE NULL

\* the length of row y after merge: a write right of the row's end extends it
MergedLen(board, piece, offset, y) ==
    LET py == y - offset.y
        W  == IF py >= 0 /\ py < Len(piece)
              THEN {px + offset.x + 1 : px \in {q \in 0..(Len(piece[py + 1]) - 1) :
                                                 piece[py + 1][q + 1] # 0}}
              ELSE {}
    IN  Max(Len(board[y + 1]), IF W = {} THEN 0 ELSE CHOOSE m \in W : \A k \in W : k <= m)

\* merge(board, piece, offset): board[y + offset.y][x + offset.x] = value
merge(board, piece, offset) ==
    [y1 \in 1..Len(board) |->
        [x1 \in 1..MergedLen(board, piece, offset, y1 - 1) |->
            MergedCell(board, piece, offset, y1 - 1, x1 - 1)]]

\* no cell of the row is 0
RowFull(row) == \A x \in 1..Len(row) : row[x] # 0

\* const row = this.board.splice(y, 1)[0].fill(0); this.board.unshift(row)
ClearRow(board, y) ==
    <<[x \in 1..Len(board[y + 1]) |-> 0]>> \o RemoveAt(board, y + 1)

\* the scan of arenaSweep from row y upwards: for (y = ...; y > 0; --y)
RECURSIVE SweepFrom(_, _, _)
SweepFrom(board, y, rowCount) ==
    IF ~(y > 0) THEN [board |-> board, rowCount |-> rowCount]
    ELSE IF RowFull(board[y + 1]) THEN SweepFrom(ClearRow(board, y), y, rowCount + 1)
    ELSE SweepFrom(board, y - 1, rowCount)

\* a sweep that awards 10 points whatever the number of rows
arenaSweepFlat(g) ==
    LET swept == SweepFrom(g.board, Len(g.board) - 1, 0)
    IN  IF swept.rowCount > 0
        THEN Outcome([g EXCEPT !.board = swept.board, !.score = @ + 10],
                     <<Call("onScore", g.score + 10)>>)
        ELSE Outcome([g EXCEPT !.board = swept.board], <<>>)

\* arenaSweep()
arenaSweep(g) ==
    LET swept == SweepFrom(g.board, Len(g.board) - 1, 0)
        score == g.score + swept.rowCount * 10
        lines == (score \div 100) - (g.score \div 100)
    IN  IF swept.rowCount > 0
        THEN Outcome([g EXCEPT !.board = swept.board, !.score = score],
                     <<Call("onScore", score)>>
                     \o (IF lines > 0 THEN <<Call("onLinesCleared", lines)>> ELSE <<>>))
        ELSE Outcome([g EXCEPT !.board = swept.board], <<>>)

\* the part of drop() that runs when the piece cannot move down; id is the
\* draw of randomPiece()
LockPiece(g, id) ==
    LET merged  == [g EXCEPT !.board = merge(g.board, g.piece, g.pos)]
        swept   == arenaSweep(merged)
        spawned == [swept.game EXCEPT !.piece = g.nextPiece,
                                      !.nextPiece = randomPiece(id),
                                      !.pos = [x |-> 3, y |-> 0]]
        over    == collide(spawned.board, spawned.piece, spawned.pos)
        after   == IF over THEN [spawned EXCEPT !.gameOver = TRUE] ELSE spawned
    IN  Outcome(after,
                swept.events
                \o <<Call("onNextPiece", after.nextPiece)>>
                \o (IF over THEN <<Call("onGameOver", NULL)>> ELSE <<>>)
                \o <<Call("onBoardUpdate", after.board)>>)

\* whether drop() locks the piece
Lands(g) == collide(g.board, g.piece, [g.pos EXCEPT !.y = @ + 1])

\* drop()
drop(g, id) ==
    IF Lands(g)
    THEN LET locked == LockPiece(g, id)
         IN  Outcome([locked.game EXCEPT !.dropCounter = 0], locked.events)
    ELSE Outcome([g EXCEPT !.pos.y = @ + 1, !.dropCounter = 0], <<>>)

\* the loop of hardDrop(): the row reached and the points awarded
RECURSIVE Fall(_)
Fall(g) ==
    IF ~collide(g.board, g.piece, [x |-> g.pos.x, y |-> g.pos.y + 1])
    THEN Fall([g EXCEPT !.pos.y = @ + 1, !.score = @ + 2])
    ELSE g

\* a hard drop that is a soft drop
softDropOnly(g, id) == drop(g, id)

\* hardDrop()
hardDrop(g, id) == drop(Fall(g), id)

\* a loop that does not look at the game-over flag
loopUnguarded(g, time, id) ==
    LET timed == [g EXCEPT !.lastTime = time, !.dropCounter = @ + (time - g.lastTime)]
        out   == IF timed.dropCounter > timed.dropInterval
                 THEN drop(timed, id) ELSE Outcome(timed, <<>>)
    IN  [game |-> out.game, events |-> out.events, again |-> TRUE]

\* loop(time); id is the draw of randomPiece() if the tick locks the piece;
\* again: whether the tick calls requestAnimationFrame(this.loop)
loop(g, time, id) ==
    IF g.gameOver THEN [game |-> g, events |-> <<>>, again |-> FALSE]
    ELSE LET timed == [g EXCEPT !.lastTime = time, !.dropCounter = @ + (time - g.lastTime)]
             out   == IF timed.dropCounter > timed.dropInterval
                      THEN drop(timed, id) ELSE Outcome(timed, <<>>)
         IN  [game |-> out.game, events |-> out.events, again |-> TRUE]

\* start() of a local game: reset(), then loop() with time = 0
start(g, idNext, idPiece) == loop(reset(g, idNext, idPiece).game, 0, 0)

\* cleanupGame(game): game.gameOver = true
cleanupGame(g) == [g EXCEPT !.gameOver = TRUE]

\* milliseconds between two animation frames in the runs explored
Deltas == {400, 700}

\* move(dir)
move(g, dir) ==
    LET moved == [g EXCEPT !.pos.x = @ + dir]
    IN  Outcome(IF collide(moved.board, moved.piece, moved.pos) THEN g ELSE moved, <<>>)

\* the transposition of _rotateMatrix
Transposed(matrix) ==
    [y \in 1..Len(matrix) |-> [x \in 1..Len(matrix[y]) |-> matrix[x][y]]]

\* a cyclic shift instead of a reversal
Shifted(seq) == [k \in 1..Len(seq) |-> seq[(k % Len(seq)) + 1]]

\* row.reverse() and matrix.reverse()
Reversed(seq) == [k \in 1..Len(seq) |-> seq[Len(seq) + 1 - k]]

\* _rotateMatrix(matrix, dir)
rotateMatrix(matrix, dir) ==
    LET t == Transposed(matrix)
    IN  IF dir > 0 THEN [y \in 1..Len(t) |-> Reversed(t[y])] ELSE Reversed(t)

\* the wall-kick loop of rotate(): g holds the rotated piece
RECURSIVE Kick(_, _, _, _)
Kick(g, offset, pos, dir) ==
    IF ~collide(g.board, g.piece, g.pos) THEN g
    ELSE LET shifted == [g EXCEPT !.pos.x = @ + offset]
             next    == -(offset + (IF offset > 0 THEN 1 ELSE -1))
         IN  IF next > Len(g.piece[1])
             THEN [shifted EXCEPT !.piece = rotateMatrix(@, -dir), !.pos.x = pos]
             ELSE Kick(shifted, next, pos, dir)

\* a rotation that does not look for collisions
rotateNoKick(g, dir) == Outcome([g EXCEPT !.piece = rotateMatrix(@, dir)], <<>>)

\* rotate(dir)
rotate(g, dir) ==
    Outcome(Kick([g EXCEPT !.piece = rotateMatrix(@, dir)], 1, g.pos.x, dir), <<>>)

\* ids Math.floor(Math.random() * PIECES.length) returns in the runs explored:
\* those of the T and the I shape
PieceDraws == {0, 4}

\* holes Math.floor(Math.random() * COLS) returns in the runs explored; the rows
\* of one addGarbage call get the same hole
Holes == {0, 4}

\* line counts addGarbage is called with in the runs explored
GarbageLines == {1, 4, 19}

\* the hole draws of one addGarbage(lines) call
HoleDraws(lines) == {[i \in 1..lines |-> h] : h \in Holes}

\* directions move and rotate are called with
Dirs == {-1, 1}

\* a garbage row without a hole
GarbageRowNoHole(hole) == [x \in 1..COLS |-> 8]

\* a garbage row filled with 9 instead of 8
GarbageRowNine(hole) == [x \in 1..COLS |-> IF x = hole + 1 THEN 0 ELSE 9]

\* Array(COLS).fill(8) with row[hole] = 0
GarbageRow(hole) == [x \in 1..COLS |-> IF x = hole + 1 THEN 0 ELSE 8]

\* addGarbage(lines); holes[i] is the hole drawn for the i-th row
RECURSIVE PushGarbage(_, _, _, _)
PushGarbage(board, lines, holes, i) ==
    IF ~(i < lines) THEN board
    ELSE PushGarbage(Append(Tail(board), GarbageRow(holes[i + 1])), lines, holes, i + 1)

addGarbage(g, lines, holes) ==
    Outcome([g EXCEPT !.board = PushGarbage(g.board, lines, holes, 0)], <<>>)

\* ------------------------------------------------------------------ actions
Init ==
    /\ multiRooms = <<>>
    /\ conn = [s \in AllSockets |-> "new"]
    /\ created = 0
    /\ matchLog = [id \in RoomIds |-> NoMatch]
    /\ duelRooms = <<>>
    /\ duelCreated = 0
    /\ dbWins = [s \in AllSockets |-> 0]
    /\ duelLog = [id \in 1..DuelRooms |-> 0]
    /\ game = NewGame
    /\ calls = 0
    /\ pending = 0
    /\ lastSentScore = 0
    /\ outbox = <<>>

\* the store and the match log become those of a handler's result
Apply(res) ==
    /\ multiRooms' = res.rooms
    /\ matchLog' = res.log

\* the number of tally entries of room before that are higher in room after
\* (a game_over that names a winner raises exactly one entry by one)
WinsAdded(before, after) ==
    Cardinality({t \in AllSockets : after.scores[t] > before.scores[t]})

\* whether the tally of the room was cleared (room.scores = {} on a leave)
TallyCleared(before, after) ==
    \E t \in AllSockets : after.scores[t] < before.scores[t]

\* the wins of the current round of each duel room after a handler ran: a
\* game_ready opens a new round, a leave that clears the tally ends the
\* round, a game_over that names a winner adds to it
RoundLog(log, before, res) ==
    [id \in DOMAIN log |->
        LET i == getRoom(before, id)
            j == getRoom(res.rooms, id)
        IN  IF j = 0 \/ i = 0 THEN 0
            ELSE IF \E k \in 1..Len(res.msgs) :
                        res.msgs[k].ev = "game_ready" /\ res.msgs[k].to = ToRoom(id)
                 THEN 0
            ELSE IF TallyCleared(before[i], res.rooms[j]) THEN 0
            ELSE log[id] + WinsAdded(before[i], res.rooms[j])]

\* the duel store and the database tally become those of a handler's result
ApplyDuel(res) ==
    /\ duelRooms' = res.rooms
    /\ dbWins' = res.db
    /\ duelLog' = RoundLog(duelLog, duelRooms, res)

\* an authenticated client connects; socket ids are fresh, so sockets connect
\* in the order of their ids and never come back
Connect(s) ==
    /\ conn[s] = "new"
    /\ \A t \in 1..(s - 1) : conn[t] # "new"
    /\ conn' = [conn EXCEPT ![s] = "open"]
    /\ UNCHANGED <<multiVars, duelVars, gameVars>>

CreateMultiRoom(s, req, maxRooms) ==
    /\ conn[s] = "open"
    /\ created < maxRooms
    /\ created' = created + 1
    /\ Apply(create_multi_room(multiRooms, matchLog, s, req, created + 1))
    /\ UNCHANGED <<conn, duelVars, gameVars>>

JoinMultiRoom(s, roomId) ==
    /\ conn[s] = "open"
    /\ \A i \in 1..Len(multiRooms) :
            multiRooms[i].id = roomId => multiRooms[i].alivePlayers < MaxAlive
    /\ Apply(join_multi_room(multiRooms, matchLog, s, roomId))
    /\ UNCHANGED <<conn, created, duelVars, gameVars>>

StartMultiGame(s, seed) ==
    /\ conn[s] = "open"
    /\ Apply(start_multi_game(multiRooms, matchLog, s, seed))
    /\ UNCHANGED <<conn, created, duelVars, gameVars>>

ActionBoard(s, value) ==
    /\ conn[s] = "open"
    /\ Apply(action_board(multiRooms, matchLog, s, value))
    /\ UNCHANGED <<conn, created, duelVars, gameVars>>

ActionScore(s, value) ==
    /\ conn[s] = "open"
    /\ Apply(action_score(multiRooms, matchLog, s, value))
    /\ UNCHANGED <<conn, created, duelVars, gameVars>>

ActionGarbage(s, value) ==
    /\ conn[s] = "open"
    /\ \E draw \in (IF GarbageRoomIdx(multiRooms, s) = 0 THEN {[branch |-> "none", k |-> 0, rand2 |-> 0]}
                    ELSE Draws(multiRooms[GarbageRoomIdx(multiRooms, s)], s)) :
            Apply(action_garbage(multiRooms, matchLog, s, value, draw))
    /\ UNCHANGED <<conn, created, duelVars, gameVars>>

ActionGameOver(s) ==
    /\ conn[s] = "open"
    /\ Apply(action_game_over(multiRooms, matchLog, s))
    /\ UNCHANGED <<conn, created, duelVars, gameVars>>

LeaveMultiRoom(s) ==
    /\ conn[s] = "open"
    /\ Apply(handleMultiLeave(multiRooms, matchLog, s))
    /\ UNCHANGED <<conn, created, duelVars, gameVars>>

\* socket.on('disconnect') of both servers
Disconnect(s) ==
    /\ conn[s] = "open"
    /\ conn' = [conn EXCEPT ![s] = "closed"]
    /\ Apply(handleMultiLeave(multiRooms, matchLog, s))
    /\ ApplyDuel(handleLeave(duelRooms, dbWins, s))
    /\ UNCHANGED <<created, duelCreated, gameVars>>

MultiChatMessage(s) ==
    /\ conn[s] = "open"
    /\ Apply(multi_chat_message(multiRooms, matchLog, s))
    /\ UNCHANGED <<conn, created, duelVars, gameVars>>

RestartMultiGame(s) ==
    /\ conn[s] = "open"
    /\ Apply(restart_multi_game(multiRooms, matchLog, s))
    /\ UNCHANGED <<conn, created, duelVars, gameVars>>

CreateRoom(s, maxRooms) ==
    /\ conn[s] = "open"
    /\ duelCreated < maxRooms
    /\ ApplyDuel(create_room(duelRooms, dbWins, s, duelCreated + 1))
    /\ duelCreated' = duelCreated + 1
    /\ UNCHANGED <<conn, multiVars, gameVars>>

JoinRoom(s, roomId, seed) ==
    /\ conn[s] = "open"
    /\ ApplyDuel(join_room(duelRooms, dbWins, s, roomId, seed))
    /\ UNCHANGED <<conn, duelCreated, multiVars, gameVars>>

LeaveRoom(s) ==
    /\ conn[s] = "open"
    /\ ApplyDuel(handleLeave(duelRooms, dbWins, s))
    /\ UNCHANGED <<conn, duelCreated, multiVars, gameVars>>

\* the tallies stay within MaxWins and MaxDbWins
GameAction(s, type, dbOk) ==
    /\ conn[s] = "open"
    /\ LET res == game_action(duelRooms, dbWins, s, type, dbOk)
       IN  /\ \A i \in 1..Len(res.rooms), t \in AllSockets : res.rooms[i].scores[t] <= MaxWins
           /\ \A t \in AllSockets : res.db[t] <= MaxDbWins
           /\ ApplyDuel(res)
    /\ UNCHANGED <<conn, duelCreated, multiVars, gameVars>>

ChatMessage(s) ==
    /\ conn[s] = "open"
    /\ ApplyDuel(chat_message(duelRooms, dbWins, s))
    /\ UNCHANGED <<conn, duelCreated, multiVars, gameVars>>

GameReset(s, seed) ==
    /\ conn[s] = "open"
    /\ ApplyDuel(game_reset(duelRooms, dbWins, s, seed))
    /\ UNCHANGED <<conn, duelCreated, multiVars, gameVars>>

\* the events of the connections in socks, with at most maxRooms rooms created,
\* capacities requested from reqs, seeds drawn from seeds and scores reported
\* from scores
NextOn(socks, maxRooms, reqs, seeds, scores) ==
    \/ \E s \in socks : Connect(s)
    \/ \E s \in socks, req \in reqs : CreateMultiRoom(s, req, maxRooms)
    \/ \E s \in socks, id \in 0..maxRooms : JoinMultiRoom(s, id)
    \/ \E s \in socks, seed \in seeds : StartMultiGame(s, seed)
    \/ \E s \in socks \cap Reporters : ActionBoard(s, SomeBoard)
    \/ \E s \in socks \cap Reporters, v \in scores : ActionScore(s, v)
    \/ \E s \in socks, n \in Lines : ActionGarbage(s, n)
    \/ \E s \in socks : ActionGameOver(s)
    \/ \E s \in socks : LeaveMultiRoom(s)
    \/ \E s \in socks : Disconnect(s)
    \/ \E s \in socks : MultiChatMessage(s)
    \/ \E s \in socks : RestartMultiGame(s)

Next == NextOn(Sockets, MaxRooms, MaxPlayersInputs, Seeds, Scores)

\* one battle room, NumSockets connections
Spec == Init /\ [][Next]_vars

NextStore == NextOn(1..StoreSockets, StoreRooms, {0}, {0}, 0..MaxScore)

\* a store of StoreRooms battle rooms, StoreSockets connections
SpecStore == Init /\ [][NextStore]_vars

\* data.type of a game_action
ActionTypes == {"board", "score", "garbage", "game_over"}

\* the events of the duel server for the connections in socks
NextDuel ==
    \/ \E s \in 1..DuelSockets : Connect(s)
    \/ \E s \in 1..DuelSockets : CreateRoom(s, DuelRooms)
    \/ \E s \in 1..DuelSockets, id \in 0..DuelRooms, seed \in Seeds : JoinRoom(s, id, seed)
    \/ \E s \in 1..DuelSockets : LeaveRoom(s)
    \/ \E s \in 1..DuelSockets : Disconnect(s)
    \/ \E s \in 1..DuelSockets, type \in ActionTypes, dbOk \in BOOLEAN : GameAction(s, type, dbOk)
    \/ \E s \in 1..DuelSockets : ChatMessage(s)
    \/ \E s \in 1..DuelSockets, seed \in Seeds : GameReset(s, seed)

\* the duel-room server: DuelRooms rooms, DuelSockets connections
SpecDuel == Init /\ [][NextDuel]_vars

\* The two servers share the connections only: the battle handlers read and
\* write multiRooms alone, the duel handlers roomManager.rooms alone.  NextEither
\* runs both servers, with rooms created in one of the two stores only.
NextEither ==
    \/ duelCreated = 0 /\ Next
    \/ created = 0 /\ NextDuel

\* both servers, one of the two stores in use
SpecEither == Init /\ [][NextEither]_vars

\* a method call on the client's game, one of at most max
CalledWithin(outcome, max) ==
    /\ calls < max
    /\ game' = outcome.game
    /\ calls' = calls + 1
    /\ UNCHANGED <<pending, lastSentScore, outbox, conn, multiVars, duelVars>>

\* a method call on the client's game; start() calls reset() before any other
Called(outcome) == CalledWithin(outcome, MaxCalls)

Reset == \E idNext \in PieceDraws, idPiece \in PieceDraws : Called(reset(game, idNext, idPiece))

Drop == game.piece # NoPiece /\ \E id \in PieceDraws : Called(drop(game, id))

HardDrop == game.piece # NoPiece /\ \E id \in PieceDraws : Called(hardDrop(game, id))

Move == game.piece # NoPiece /\ \E dir \in Dirs : Called(move(game, dir))

Rotate == game.piece # NoPiece /\ \E dir \in Dirs : Called(rotate(game, dir))

AddGarbage ==
    /\ game.piece # NoPiece
    /\ \E lines \in GarbageLines : \E holes \in HoleDraws(lines) :
           Called(addGarbage(game, lines, holes))

NextGame == Reset \/ Drop \/ HardDrop \/ Move \/ Rotate \/ AddGarbage

\* one client's game, MaxCalls method calls
SpecGame == Init /\ [][NextGame]_vars

\* the keyboard alone: a game is started, then moved and rotated
NextKick ==
    \/ /\ calls = 0
       /\ \E idNext \in PieceDraws, idPiece \in PieceDraws :
              CalledWithin(reset(game, idNext, idPiece), MaxKickCalls)
    \/ game.piece # NoPiece /\ \E dir \in Dirs : CalledWithin(move(game, dir), MaxKickCalls)
    \/ game.piece # NoPiece /\ \E dir \in Dirs : CalledWithin(rotate(game, dir), MaxKickCalls)

\* one client's game under ArrowLeft, ArrowRight and ArrowUp, MaxKickCalls calls
SpecKick == Init /\ [][NextKick]_vars

\* an onScore callback that counts the attacks of every report from zero
onScoreFromZero(last, score) ==
    LET attacks == score \div AttackThreshold
    IN  [sent |-> <<[type |-> "score", value |-> score]>>
                  \o (IF attacks > 0 THEN <<[type |-> "garbage", value |-> attacks]>> ELSE <<>>),
         lastSentScore |-> score]

\* localGame.onScore(score), the closure over lastSentScore: the game actions
\* it emits, and lastSentScore after it (Math.floor on a score >= 0)
onScore(last, score) ==
    LET attacks == (score \div AttackThreshold) - (last \div AttackThreshold)
    IN  [sent |-> <<[type |-> "score", value |-> score]>>
                  \o (IF attacks > 0 THEN <<[type |-> "garbage", value |-> attacks]>> ELSE <<>>),
         lastSentScore |-> score]

\* the scores a game reports in the runs explored: 0 at reset(), then growing
ReportedScores == {0, 180, 199, 200, 220, 399, 400, 610}

\* the client's score reports: game_ready binds a new closure with
\* lastSentScore = 0; the game calls onScore(0) at reset() and onScore(score)
\* at each sweep, the score never decreasing between two resets; outbox holds
\* the actions emitted since game_ready
NextReport ==
    \/ /\ calls < MaxReports
       /\ lastSentScore' = 0
       /\ outbox' = <<>>
       /\ calls' = calls + 1
       /\ UNCHANGED <<game, pending, conn, multiVars, duelVars>>
    \/ /\ calls < MaxReports
       /\ \E score \in ReportedScores :
              /\ score = 0 \/ score >= lastSentScore
              /\ outbox' = outbox \o onScore(lastSentScore, score).sent
              /\ lastSentScore' = onScore(lastSentScore, score).lastSentScore
       /\ calls' = calls + 1
       /\ UNCHANGED <<game, pending, conn, multiVars, duelVars>>

\* one client's score callback, MaxReports steps
SpecReport == Init /\ [][NextReport]_vars

\* a step of the client's game: the game, and the loop callbacks pending, after it
Stepped(g, p) ==
    /\ calls < MaxLoopCalls
    /\ game' = g
    /\ pending' = p
    /\ calls' = calls + 1
    /\ UNCHANGED <<lastSentScore, outbox, conn, multiVars, duelVars>>

\* a game is constructed with a seed and started, its loop runs at each
\* animation frame, garbage arrives, and the game is stopped from outside
NextLoop ==
    \/ /\ calls = 0
       /\ \E seed \in Seeds, idNext \in PieceDraws, idPiece \in PieceDraws :
              LET out == start(newTetrisGame(seed), idNext, idPiece)
              IN  Stepped(out.game, pending + (IF out.again THEN 1 ELSE 0))
    \/ /\ pending > 0
       /\ \E dt \in Deltas, id \in PieceDraws :
              LET out == loop(game, game.lastTime + dt, id)
              IN  Stepped(out.game, pending - 1 + (IF out.again THEN 1 ELSE 0))
    \/ /\ game.piece # NoPiece
       /\ \E lines \in GarbageLines : \E holes \in HoleDraws(lines) :
              Stepped(addGarbage(game, lines, holes).game, pending)
    \/ game.piece # NoPiece /\ ~game.gameOver /\ Stepped(cleanupGame(game), pending)

\* one client's game driven by its loop, MaxLoopCalls steps
SpecLoop == Init /\ [][NextLoop]_vars

\* ------------------------------------------------------------------ claims
\* Claims about a handler are stated over its result in every reachable state
\* and for every event an open connection can send there.

\* the connections that can send events
Open == {s \in DOMAIN conn : conn[s] = "open"}

HasRoom(rooms, id) == GetRoomIdx(rooms, id) # 0
RoomById(rooms, id) == rooms[GetRoomIdx(rooms, id)]
PlayerOf(room, s) == room.players[PlayerIdx(room, s)]
RoomIdxs == 1..Len(multiRooms)

\* every roster member has score 0, alive = true and rank = null
AllFresh(room) ==
    \A k \in 1..Len(room.players) :
        /\ room.players[k].score = 0
        /\ room.players[k].alive
        /\ room.players[k].rank = NULL

\* C1: in a battle room, a game_over action of a roster member whose alive
\* flag is true makes that player not-alive, sets its rank to the room's
\* alive-player count before the event and lowers that count by exactly 1.
C1_GameOverEliminates ==
    \A s \in Open : \A i \in RoomIdxs :
        LET room == multiRooms[i]
            res  == action_game_over(multiRooms, matchLog, s)
        IN  (HasPlayer(room, s) /\ PlayerOf(room, s).alive) =>
                /\ HasRoom(res.rooms, room.id)
                /\ ~PlayerOf(RoomById(res.rooms, room.id), s).alive
                /\ PlayerOf(RoomById(res.rooms, room.id), s).rank = room.alivePlayers
                /\ RoomById(res.rooms, room.id).alivePlayers = room.alivePlayers - 1

\* C2: when a match started with M roster members is finished, the ranks
\* handed out since the start (to the players eliminated by game_over or by
\* leaving while alive, and rank 1 to the last survivor) are exactly 1..M,
\* each handed out once.
C2_RanksArePermutation ==
    \A i \in RoomIdxs :
        LET log == matchLog[multiRooms[i].id]
        IN  multiRooms[i].status = "finished" =>
                /\ log.size >= MinToStart
                /\ Len(log.ranks) = log.size
                /\ {log.ranks[k] : k \in 1..Len(log.ranks)} = 1..log.size

\* C2 witness: a finished match of three, two of whose players have left
C2_Witness ==
    \E i \in RoomIdxs :
        /\ multiRooms[i].status = "finished"
        /\ matchLog[multiRooms[i].id].size = 3
        /\ matchLog[multiRooms[i].id].ranks = <<3, 2, 1>>
        /\ Len(multiRooms[i].players) = 1

\* no room is playing with an alive-player count of 1 or less
C3_PlayingHasTwoAlive ==
    \A i \in RoomIdxs : multiRooms[i].status = "playing" => multiRooms[i].alivePlayers > 1

\* the step that brings a playing room's count to 1 or less finishes it and
\* leaves exactly one of the players that were alive with rank 1, nobody alive
C3_EndsInSameEvent ==
    \A i \in RoomIdxs :
        LET r == multiRooms[i]
        IN  (/\ r.status = "playing"
             /\ r.alivePlayers > 1
             /\ HasRoom(multiRooms', r.id)
             /\ RoomById(multiRooms', r.id).alivePlayers <= 1) =>
                LET r2 == RoomById(multiRooms', r.id)
                IN  /\ r2.status = "finished"
                    /\ \A k \in 1..Len(r2.players) : ~r2.players[k].alive
                    /\ Cardinality({k \in 1..Len(r.players) :
                            /\ r.players[k].alive
                            /\ HasPlayer(r2, r.players[k].sid)
                            /\ PlayerOf(r2, r.players[k].sid).rank = 1}) = 1

\* C3: after every processed event no battle room is playing with an
\* alive-player count of 1 or less; the event that brings the count to 1 or
\* less sets the status to finished and marks the remaining alive player
\* not-alive with rank 1.
C3_EndCheck == []C3_PlayingHasTwoAlive /\ [][C3_EndsInSameEvent]_vars

\* C3 witness: a finished room whose winner is still on the roster
C3_Witness ==
    \E i \in RoomIdxs :
        /\ multiRooms[i].status = "finished"
        /\ multiRooms[i].alivePlayers = 1
        /\ \E k \in 1..Len(multiRooms[i].players) :
                multiRooms[i].players[k].rank = 1 /\ ~multiRooms[i].players[k].alive

\* the multi_game_finished messages among msgs
Finished(msgs) == {k \in 1..Len(msgs) : msgs[k].ev = "multi_game_finished"}

\* the rankings list every roster member of the room once, with a rank, in
\* ascending rank order, rank 1 first
GoodRankings(rk, room) ==
    /\ Len(rk) = Len(room.players)
    /\ \A k \in 1..Len(room.players) :
            Cardinality({j \in 1..Len(rk) : rk[j].socketId = room.players[k].sid}) = 1
    /\ \A j \in 1..Len(rk) : rk[j].rank # NULL
    /\ \A j \in 1..(Len(rk) - 1) : rk[j].rank < rk[j + 1].rank
    /\ rk[1].rank = 1

\* the results of the two handlers that run the end check, for socket s
EndingResults(s) ==
    {action_game_over(multiRooms, matchLog, s), handleMultiLeave(multiRooms, matchLog, s)}

\* C4: the rankings broadcast in multi_game_finished hold every player on
\* the roster at that moment exactly once (the leaver whose leave finished
\* the match included), every rank is non-null, the entries are in ascending
\* rank order and the first entry has rank 1.
C4_RankingsComplete ==
    \A s \in Open : \A res \in EndingResults(s) : \A k \in Finished(res.msgs) :
        /\ res.msgs[k].to.kind = "room"
        /\ HasRoom(multiRooms, res.msgs[k].to.room)
        /\ GoodRankings(res.msgs[k].data, RoomById(multiRooms, res.msgs[k].to.room))

\* C4 witness: a leave that finishes a match with three players on the roster
C4_Witness ==
    \E s \in Open :
        LET res == handleMultiLeave(multiRooms, matchLog, s)
        IN  \E k \in Finished(res.msgs) :
                /\ Len(res.msgs[k].data) = 3
                /\ res.msgs[k].data[2].socketId = s

\* the status changes a room may make in one step
StatusSteps ==
    {<<"waiting", "waiting">>, <<"waiting", "playing">>,
     <<"playing", "playing">>, <<"playing", "finished">>,
     <<"finished", "finished">>, <<"finished", "waiting">>}

\* C5: a battle room's status changes only along waiting -> playing ->
\* finished -> waiting: never waiting -> finished, playing -> waiting or
\* finished -> playing.
C5_StatusOrder ==
    [][\A i \in RoomIdxs :
            HasRoom(multiRooms', multiRooms[i].id) =>
                <<multiRooms[i].status, RoomById(multiRooms', multiRooms[i].id).status>>
                    \in StatusSteps]_vars

\* C5 witness: a room that went from waiting over playing to finished and
\* that a member's reset request takes back to waiting
C5_Witness ==
    \E s \in Open :
        LET i == FindRoomIdx(multiRooms, s)
        IN  /\ i # 0
            /\ multiRooms[i].status = "finished"
            /\ restart_multi_game(multiRooms, matchLog, s).rooms[i].status = "waiting"

\* C6: a start_multi_game request of a roster member who is not the room's
\* host never changes the room.
C6_NonHostStartIgnored ==
    \A s \in Open : \A seed \in Seeds : \A i \in RoomIdxs :
        LET room == multiRooms[i]
            res  == start_multi_game(multiRooms, matchLog, s, seed)
        IN  (HasPlayer(room, s) /\ room.hostSocketId # s) =>
                /\ HasRoom(res.rooms, room.id)
                /\ RoomById(res.rooms, room.id) = room

\* C6 witness: a connected non-host member of a waiting room of two or more,
\* which a start request of the host would start
C6_Witness ==
    \E s \in Open : \E i \in RoomIdxs :
        /\ HasPlayer(multiRooms[i], s)
        /\ multiRooms[i].hostSocketId # s
        /\ multiRooms[i].status = "waiting"
        /\ PlayerCount(multiRooms[i]) >= MinToStart
        /\ \E k \in 1..Len(multiRooms[i].players) : multiRooms[i].players[k].score # 0
        /\ start_multi_game(multiRooms, matchLog, multiRooms[i].hostSocketId, 0).rooms[i].status
                = "playing"

ReadyFor(msgs, id, seed, players) ==
    {k \in 1..Len(msgs) :
        /\ msgs[k].ev = "multi_game_ready"
        /\ msgs[k].to = ToRoom(id)
        /\ msgs[k].data.seed = seed
        /\ Len(msgs[k].data.players) = Len(players)
        /\ \A j \in 1..Len(players) : msgs[k].data.players[j].socketId = players[j].sid}

\* C8: a start request of the host of a waiting battle room with at least 2
\* players sets the status to playing, assigns the seed drawn, sets the
\* alive-player count to the roster size and every roster member to score 0,
\* alive = true, rank = null; the start event sent to the room carries that
\* seed and the full roster.
C8_StartSetsUpMatch ==
    \A s \in Open : \A seed \in Seeds : \A i \in RoomIdxs :
        LET room == multiRooms[i]
            res  == start_multi_game(multiRooms, matchLog, s, seed)
        IN  (/\ HasPlayer(room, s)
             /\ room.hostSocketId = s
             /\ room.status = "waiting"
             /\ PlayerCount(room) >= 2) =>
                /\ HasRoom(res.rooms, room.id)
                /\ RoomById(res.rooms, room.id).status = "playing"
                /\ RoomById(res.rooms, room.id).seed = seed
                /\ RoomById(res.rooms, room.id).alivePlayers = PlayerCount(room)
                /\ AllFresh(RoomById(res.rooms, room.id))
                /\ ReadyFor(res.msgs, room.id, seed, room.players) # {}

\* C9: a reset request for a battle room whose status is not finished is
\* answered with a room_error to the requester only and changes nothing in
\* the room.
C9_ResetRefusedUnlessFinished ==
    \A s \in Open : \A i \in RoomIdxs :
        LET room == multiRooms[i]
            res  == restart_multi_game(multiRooms, matchLog, s)
        IN  (HasPlayer(room, s) /\ room.status # "finished") =>
                /\ Len(res.msgs) = 1
                /\ res.msgs[1].ev = "room_error"
                /\ res.msgs[1].to = ToSocket(s)
                /\ HasRoom(res.rooms, room.id)
                /\ RoomById(res.rooms, room.id) = room

C11_SeedNullIffWaiting ==
    \A i \in RoomIdxs : (multiRooms[i].seed = NULL) <=> (multiRooms[i].status = "waiting")

\* C11 (second half): a room that is playing or finished before and after an
\* event has the same seed before and after it.
C11_SeedKept ==
    \A i \in RoomIdxs : \A j \in 1..Len(multiRooms') :
        (/\ multiRooms'[j].id = multiRooms[i].id
         /\ multiRooms[i].status # "waiting"
         /\ multiRooms'[j].status # "waiting") =>
            multiRooms'[j].seed = multiRooms[i].seed

\* C11: a battle room's seed is null exactly when the room is waiting, and the
\* seed assigned at start stays the same through playing and finished until the
\* room is reset.
C11_SeedLifetime == []C11_SeedNullIffWaiting /\ [][C11_SeedKept]_vars

\* a match that was started with the seed MaxSeed has ended and still has it
C11_Witness ==
    \E i \in RoomIdxs : multiRooms[i].status = "finished" /\ multiRooms[i].seed = MaxSeed

\* the duel rooms by index, and the room ids a join request may name
DuelIdxs == 1..Len(duelRooms)
JoinIds  == 0..Max(Max(MaxRooms, StoreRooms), DuelRooms)

\* the messages are a single room_error, sent to connection s alone
OnlyRoomError(msgs, s) ==
    /\ Len(msgs) = 1
    /\ msgs[1].ev = "room_error"
    /\ msgs[1].to = ToSocket(s)

\* a join naming id is to be refused by the battle store: no such room, a room
\* at capacity, or a room that is not waiting
MultiJoinRefused(id) ==
    \/ ~HasRoom(multiRooms, id)
    \/ \E i \in RoomIdxs : /\ multiRooms[i].id = id
                            /\ \/ PlayerCount(multiRooms[i]) >= multiRooms[i].maxPlayers
                               \/ multiRooms[i].status # "waiting"

\* the same for the duel store, whose rooms hold 2 players
DuelJoinRefused(id) ==
    \/ \A i \in DuelIdxs : duelRooms[i].id # id
    \/ \E i \in DuelIdxs : /\ duelRooms[i].id = id
                            /\ \/ Len(duelRooms[i].players) >= 2
                               \/ duelRooms[i].status # "waiting"

\* C12: a join request (duel or battle) that targets a nonexistent room, a room
\* at capacity or a room that is not waiting adds no player, changes no room of
\* the store and emits only a room_error to the requesting connection.
C12_RefusedJoinChangesNothing ==
    \A s \in Open : \A id \in JoinIds : \A seed \in Seeds :
        /\ MultiJoinRefused(id) =>
               LET res == join_multi_room(multiRooms, matchLog, s, id)
               IN  res.rooms = multiRooms /\ OnlyRoomError(res.msgs, s)
        /\ DuelJoinRefused(id) =>
               LET res == join_room(duelRooms, dbWins, s, id, seed)
               IN  res.rooms = duelRooms /\ OnlyRoomError(res.msgs, s)

\* a battle room is at capacity and playing while a connection is open that the
\* room refuses
C12_Witness ==
    \E i \in RoomIdxs : \E s \in Open :
        /\ PlayerCount(multiRooms[i]) >= multiRooms[i].maxPlayers
        /\ multiRooms[i].status = "playing"
        /\ join_multi_room(multiRooms, matchLog, s, multiRooms[i].id).rooms = multiRooms

C14_HostIsMember ==
    \A i \in RoomIdxs : HasPlayer(multiRooms[i], multiRooms[i].hostSocketId)

\* C14 (second half): when the host of a room with other members leaves or
\* disconnects, the first remaining roster member becomes the host and a
\* host-changed event naming it is broadcast to the room.
C14_HostHandover ==
    \A s \in Open : \A i \in RoomIdxs :
        LET room == multiRooms[i]
            res  == handleMultiLeave(multiRooms, matchLog, s)
            rest == RemoveAt(room.players, PlayerIdx(room, s))
        IN  (HasPlayer(room, s) /\ room.hostSocketId = s /\ PlayerCount(room) >= 2) =>
                /\ HasRoom(res.rooms, room.id)
                /\ RoomById(res.rooms, room.id).hostSocketId = rest[1].sid
                /\ \E k \in 1..Len(res.msgs) :
                       res.msgs[k] = Msg(ToRoom(room.id), "multi_host_changed", rest[1].sid)

\* C14: the host of every battle room is on its roster, and a host that leaves or
\* disconnects while members remain hands over to the first remaining member,
\* with a host-changed broadcast.
C14_HostStaysMember == C14_HostIsMember /\ C14_HostHandover

\* C15: after every processed event no room (duel or battle) with an empty
\* roster remains in the room store, whatever the room's status was when its
\* last player left.
C15_NoEmptyRoom ==
    /\ \A i \in RoomIdxs : PlayerCount(multiRooms[i]) >= 1
    /\ \A i \in DuelIdxs : Len(duelRooms[i].players) >= 1

\* the only member of a duel room that is playing is about to leave, and the
\* leave deletes the room
C15_Witness ==
    \E i \in DuelIdxs : \E s \in Open :
        /\ duelRooms[i].players = <<s>>
        /\ duelRooms[i].status = "playing"
        /\ \A j \in 1..Len(handleLeave(duelRooms, dbWins, s).rooms) :
               handleLeave(duelRooms, dbWins, s).rooms[j].id # duelRooms[i].id

\* the ranks announced by the multi_player_eliminated messages among msgs
AnnouncedRanks(msgs) ==
    {msgs[k].data.rank : k \in {j \in 1..Len(msgs) : msgs[j].ev = "multi_player_eliminated"}}

\* the multi_game_finished messages among msgs, as a set
FinishedSet(msgs) == {msgs[k] : k \in Finished(msgs)}

Candidates(room, s) ==
    {room.players[k].sid : k \in {j \in 1..Len(room.players) :
        room.players[j].alive /\ room.players[j].sid # s}}

\* the sockets that the multi_receive_garbage messages among msgs go to
GarbageTo(msgs) ==
    {msgs[k].to.sock : k \in {j \in 1..Len(msgs) : msgs[j].ev = "multi_receive_garbage"}}

\* whether the weighted loop returns for the draw rand2 (it falls back to the
\* last candidate when it does not)
RECURSIVE LoopReturns(_, _, _)
LoopReturns(targets, i, rand2) ==
    /\ i <= Len(targets)
    /\ \/ rand2 - 2 * (targets[i].score + 1) <= 0
       \/ LoopReturns(targets, i + 1, rand2 - 2 * (targets[i].score + 1))

\* C17: for every outcome of the random draws (uniform branch, weighted branch
\* and its fall-back to the last candidate) the target selected for a garbage
\* action is on the roster of the attacker's room, alive and not the attacker;
\* when no such member exists no target is returned and no garbage is delivered.
C17_TargetIsAliveOpponent ==
    \A s \in Open : \A i \in RoomIdxs :
        LET room == multiRooms[i]
        IN  HasPlayer(room, s) =>
                \A draw \in Draws(room, s) :
                    /\ IF Candidates(room, s) = {}
                       THEN selectAttackTarget(room, s, draw) = NULL
                       ELSE selectAttackTarget(room, s, draw) \in Candidates(room, s)
                    /\ i = FindRoomIdx(multiRooms, s) =>
                           \A n \in Lines :
                               LET res == action_garbage(multiRooms, matchLog, s, n, draw)
                               IN  /\ GarbageTo(res.msgs) \subseteq Candidates(room, s)
                                   /\ Candidates(room, s) = {} => res.msgs = <<>>

\* a draw of the weighted branch runs through the whole loop and falls back
\* to the last candidate, in a room that also holds an eliminated player
C17_Witness ==
    \E s \in Open : \E i \in RoomIdxs :
        /\ HasPlayer(multiRooms[i], s)
        /\ \E k \in 1..Len(multiRooms[i].players) :
               ~multiRooms[i].players[k].alive /\ multiRooms[i].players[k].sid # s
        /\ \E draw \in Draws(multiRooms[i], s) :
               /\ draw.branch = "weighted"
               /\ ~LoopReturns(Targets(multiRooms[i], s), 1, draw.rand2)
               /\ selectAttackTarget(multiRooms[i], s, draw) \in Candidates(multiRooms[i], s)

\* C18: a garbage action is routed to a target only when the sender's battle
\* room is playing: sent while the room is waiting or finished, it delivers no
\* garbage event to any player.
C18_GarbageOnlyWhilePlaying ==
    \A s \in Open : \A i \in RoomIdxs : \A n \in Lines :
        LET room == multiRooms[i]
        IN  (i = FindRoomIdx(multiRooms, s) /\ room.status # "playing") =>
                \A draw \in Draws(room, s) :
                    GarbageTo(action_garbage(multiRooms, matchLog, s, n, draw).msgs) = {}

\* C19: each garbage action handled for a battle room (one for which a target
\* exists, as it always does for a member of a playing room) delivers exactly
\* one garbage event to exactly one target, carrying the reported line count,
\* and emits one room-wide attack notification naming attacker, target and
\* line count.
C19_OneGarbageOneNotice ==
    \A s \in Open : \A i \in RoomIdxs : \A n \in Lines :
        LET room == multiRooms[i]
        IN  (/\ i = FindRoomIdx(multiRooms, s)
             /\ Candidates(room, s) # {} \/ room.status = "playing") =>
                \A draw \in Draws(room, s) :
                    \E t \in Candidates(room, s) :
                        action_garbage(multiRooms, matchLog, s, n, draw).msgs =
                            <<Msg(ToSocket(t), "multi_receive_garbage",
                                  [fromSocketId |-> s, lines |-> n]),
                              Msg(ToRoom(room.id), "multi_attack_event",
                                  [from |-> s, to |-> t, lines |-> n])>>

\* a member of a playing room with two alive opponents can send garbage
C19_Witness ==
    \E s \in Open : \E i \in RoomIdxs :
        /\ i = FindRoomIdx(multiRooms, s)
        /\ multiRooms[i].status = "playing"
        /\ Cardinality(Candidates(multiRooms[i], s)) = 2
        /\ \E draw \in Draws(multiRooms[i], s) :
               GarbageTo(action_garbage(multiRooms, matchLog, s, MaxLines, draw).msgs) # {}

\* the number of players of the duel room with the given id in a store, 0 when
\* there is no such room
DuelCount(rooms, id) == getPlayerCount(rooms, id)

\* every game_ready among msgs goes to a duel room that has 2 players in rooms
ReadyOnlyForTwo(msgs, rooms) ==
    \A k \in 1..Len(msgs) :
        msgs[k].ev = "game_ready" =>
            msgs[k].to.kind = "room" /\ DuelCount(rooms, msgs[k].to.room) >= 2

\* every room that is playing in after and was not in before has 2 players
PlayingOnlyWithTwo(before, after) ==
    \A j \in 1..Len(after) :
        (/\ after[j].status = "playing"
         /\ \A i \in 1..Len(before) :
                before[i].id = after[j].id => before[i].status # "playing") =>
            Len(after[j].players) >= 2

\* C20 (join half): the join that brings a duel room's roster to exactly 2
\* players broadcasts game_ready with the freshly drawn seed, and no join emits
\* game_ready or sets the status to playing for a room with fewer than 2 players
C20_JoinHalf ==
    \A s \in Open : \A seed \in Seeds : \A id \in JoinIds :
        LET res == join_room(duelRooms, dbWins, s, id, seed)
        IN  /\ (DuelCount(duelRooms, id) = 1 /\ DuelCount(res.rooms, id) = 2) =>
                   \E k \in 1..Len(res.msgs) :
                       res.msgs[k] = Msg(ToRoom(id), "game_ready", seed)
            /\ ReadyOnlyForTwo(res.msgs, res.rooms)
            /\ PlayingOnlyWithTwo(duelRooms, res.rooms)

\* C20 (reset half): no game_reset emits game_ready or sets the status to
\* playing for a room with fewer than 2 players
C20_ResetHalf ==
    \A s \in Open : \A seed \in Seeds :
        LET res == game_reset(duelRooms, dbWins, s, seed)
        IN  /\ ReadyOnlyForTwo(res.msgs, res.rooms)
            /\ PlayingOnlyWithTwo(duelRooms, res.rooms)

\* C20: the join that brings a duel room's roster to exactly 2 players
\* broadcasts game_ready with the freshly drawn seed, and no join and no
\* game_reset emits game_ready or sets the status to playing for a duel room
\* with fewer than 2 players.
C20_DuelStartNeedsTwo == C20_JoinHalf /\ C20_ResetHalf

\* C21: once the second player has joined a duel room and the match has
\* started, the room's status is playing (not waiting) until a player leaves:
\* a duel room with both players on its roster is playing.
C21_PlayingWhileTwo ==
    \A i \in DuelIdxs : Len(duelRooms[i].players) = 2 => duelRooms[i].status = "playing"

\* C22 (first half): a game_over report from a player of a duel room with two
\* players names the other roster member as winner and raises that member's
\* tally, and no other, by one.
C22_ReportNamesOther ==
    \A s \in Open : \A i \in DuelIdxs : \A dbOk \in BOOLEAN :
        LET room == duelRooms[i]
            res  == game_action(duelRooms, dbWins, s, "game_over", dbOk)
        IN  (i = findPlayerRoom(duelRooms, s) /\ Len(room.players) = 2) =>
                \E w \in AllSockets :
                    /\ w # s
                    /\ \E k \in 1..2 : room.players[k] = w
                    /\ res.rooms[i].scores = [room.scores EXCEPT ![w] = @ + 1]

\* C22 (second half): no round of a duel room, from one game_ready to the
\* next, has more than one win added to the room's tally.
C22_OneWinPerRound ==
    \A i \in DuelIdxs : duelLog[duelRooms[i].id] <= 1

\* C22: in a duel round the first game_over report designates the other
\* roster member as the winner and raises that member's tally by one, so that
\* each round adds exactly one win to the room's tally.
C22_RoundAddsOneWin == C22_ReportNamesOther /\ C22_OneWinPerRound

\* C23: after any sequence of reset, drop, hardDrop, move, rotate and addGarbage
\* calls on a non-mirror game the board has exactly ROWS (20) rows of exactly
\* COLS (10) cells, each an integer in 0..8.
C23_BoardShape ==
    /\ Len(game.board) = 20
    /\ \A y \in 1..Len(game.board) :
           /\ Len(game.board[y]) = 10
           /\ \A x \in 1..Len(game.board[y]) : game.board[y][x] \in 0..8

\* a cell of the board holds the value v
HasCell(v) == \E y \in 1..Len(game.board) : \E x \in 1..Len(game.board[y]) : game.board[y][x] = v

\* the game has been reset: it has a piece
Started == game.piece # NoPiece

\* garbage rows were pushed and a piece was merged into the board
C23_Witness == calls = MaxCalls /\ HasCell(8) /\ \E v \in 1..7 : HasCell(v)

\* C24: after rotate(dir) returns, either the rotated piece at its (possibly
\* shifted) column does not collide with the board, or the piece matrix and the
\* position are exactly what they were before the call.
C24_RotateFitsOrRestores ==
    Started =>
        \A dir \in Dirs :
            LET after == rotate(game, dir).game
            IN  \/ /\ after.piece = rotateMatrix(game.piece, dir)
                   /\ after.pos.y = game.pos.y
                   /\ ~collide(after.board, after.piece, after.pos)
                \/ after.piece = game.piece /\ after.pos = game.pos

\* a rotation that collides in place and ends at another column
C24_Witness ==
    /\ Started
    /\ ~collide(game.board, game.piece, game.pos)
    /\ \E dir \in Dirs :
           /\ collide(game.board, rotateMatrix(game.piece, dir), game.pos)
           /\ rotate(game, dir).game.pos.x # game.pos.x

\* four rotations of a matrix in one direction
Rotated4(matrix, dir) ==
    rotateMatrix(rotateMatrix(rotateMatrix(rotateMatrix(matrix, dir), dir), dir), dir)

\* C25: for each of the 7 shapes and each direction, rotating 4 times in that
\* direction yields the original matrix; so it does for the piece in play,
\* whatever rotations it went through.
C25_FourRotationsIdentity ==
    /\ \A p \in 1..Len(PIECES) : \A dir \in Dirs : Rotated4(PIECES[p], dir) = PIECES[p]
    /\ Started => \A dir \in Dirs : Rotated4(game.piece, dir) = game.piece

\* the piece in play has been rotated: it is none of the 7 shape matrices
C25_Witness ==
    /\ Started
    /\ \A p \in 1..Len(PIECES) : game.piece # PIECES[p]
    /\ rotateMatrix(game.piece, 1) # game.piece

\* the names of the callbacks among names that a method invoked, in order
Invoked(events, names) ==
    LET Named(e) == e.name \in names
    IN  [k \in 1..Len(SelectSeq(events, Named)) |-> SelectSeq(events, Named)[k].name]

\* C26: when a drop locks the active piece, the notifications are emitted in
\* this order: next-piece-changed, then board-changed, then (only if the newly
\* spawned piece collides at spawn) game-over.
C26_LockNotifiesInOrder ==
    (Started /\ Lands(game)) =>
        \A id \in PieceDraws :
            LET out == drop(game, id)
                over == collide(out.game.board, out.game.piece, out.game.pos)
            IN  Invoked(out.events, {"onNextPiece", "onBoardUpdate", "onGameOver"})
                    = <<"onNextPiece", "onBoardUpdate">>
                      \o (IF over THEN <<"onGameOver">> ELSE <<>>)

\* the number of rows hardDrop moves the piece: the rows below it that are free
FallRows(g) ==
    CHOOSE d \in 0..ROWS :
        /\ \A k \in 1..d : ~collide(g.board, g.piece, [x |-> g.pos.x, y |-> g.pos.y + k])
        /\ collide(g.board, g.piece, [x |-> g.pos.x, y |-> g.pos.y + d + 1])

\* the board once the piece is written into it FallRows(g) rows further down
LandedBoard(g) == merge(g.board, g.piece, [x |-> g.pos.x, y |-> g.pos.y + FallRows(g)])

\* the rows of the board that are full
FullRows(board) == {y \in 1..Len(board) : RowFull(board[y])}

Alternating(lines, h) ==
    [i \in 1..lines |-> IF i % 2 = 1 THEN h ELSE CHOOSE other \in Holes : other # h]

\* C28: after addGarbage(n) with 0 <= n <= 20, the bottom n rows each have
\* exactly one empty cell and nine cells of value 8, and rows 0..19-n are the
\* previous rows n..19 in the same order.
C28_GarbageRows ==
    \A n \in 0..20 : \A h \in Holes :
        LET after == addGarbage(game, n, Alternating(n, h)).game.board
        IN  /\ Len(after) = 20
            /\ \A y \in (20 - n)..19 :
                   /\ Cardinality({x \in 1..10 : after[y + 1][x] = 0}) = 1
                   /\ Cardinality({x \in 1..10 : after[y + 1][x] = 8}) = 9
            /\ \A y \in 0..(19 - n) : after[y + 1] = game.board[y + n + 1]

\* garbage was added below rows that hold a merged piece
C28_Witness ==
    /\ Started
    /\ Cardinality({x \in 1..10 : game.board[20][x] = 8}) = 9
    /\ \E y \in 1..19 : \E x \in 1..10 : game.board[y][x] \in 1..7
    /\ \E y \in 1..19 : game.board[y] = createBoard[y]

\* the board the sweep of a locking drop starts from
LockedBoard(g) == merge(g.board, g.piece, g.pos)

\* the rows of the board that are not full, in order
KeptRows(board) ==
    LET NotFull(row) == ~RowFull(row)
    IN  SelectSeq(board, NotFull)

\* C29: the line-clear sweep examines every row including row 0: immediately
\* after a sweep no row of the board, row 0 included, has all 10 cells nonzero,
\* and each removed row has been replaced by an empty row inserted at the top.
C29_SweepClearsEveryFullRow ==
    (Started /\ Lands(game)) =>
        LET before == LockedBoard(game)
            after  == arenaSweep([game EXCEPT !.board = before]).game.board
        IN  /\ \A y \in 0..19 : \E x \in 1..10 : after[y + 1][x] = 0
            /\ after = [k \in 1..(20 - Len(KeptRows(before))) |-> createBoard[k]]
                       \o KeptRows(before)

\* C30: a sweep that clears k >= 1 rows increases the score by exactly 10*k and
\* invokes the score callback exactly once, with the final score; a sweep that
\* clears no row leaves the score unchanged and invokes no score callback.
C30_SweepScoresOnce ==
    (Started /\ Lands(game)) =>
        LET before == [game EXCEPT !.board = LockedBoard(game)]
            out    == arenaSweep(before)
            k      == Cardinality(FullRows(before.board))
                      - Cardinality(FullRows(out.game.board))
            scores == SelectSeq(out.events, LAMBDA e : e.name = "onScore")
        IN  /\ out.game.score = before.score + 10 * k
            /\ k >= 1 => scores = <<Call("onScore", out.game.score)>>
            /\ k = 0 => scores = <<>>

\* a locking drop whose sweep clears several rows
C30_Witness ==
    /\ Started
    /\ Lands(game)
    /\ Cardinality(FullRows(LockedBoard(game)))
       - Cardinality(FullRows(arenaSweep([game EXCEPT !.board = LockedBoard(game)]).game.board)) >= 2

\* the battle rooms and the duel rooms that have s on their roster
MultiRoomsOf(s) == {i \in RoomIdxs : HasPlayer(multiRooms[i], s)}
DuelRoomsOf(s) == {i \in DuelIdxs : s \in {duelRooms[i].players[k] : k \in 1..Len(duelRooms[i].players)}}

\* C35: after a connection's disconnect event has been processed, that
\* connection is on the roster of no duel room and of no battle room, for any
\* sequence of create and join requests it sent before.
C35_DisconnectedOnNoRoster ==
    \A s \in DOMAIN conn :
        conn[s] = "closed" => MultiRoomsOf(s) = {} /\ DuelRoomsOf(s) = {}

\* C36: a game_over action from a battle-room player whose alive flag is already
\* false (eliminated, or the winner of a finished room) changes no rank, no alive
\* flag, no alive-player count and no status, and broadcasts no elimination.
C36_DeadGameOverIsNoOp ==
    \A s \in Open :
        LET i == FindRoomIdx(multiRooms, s)
        IN  (i # 0 /\ ~PlayerOf(multiRooms[i], s).alive) =>
                LET res == action_game_over(multiRooms, matchLog, s)
                IN  res.rooms = multiRooms /\ res.msgs = <<>> /\ res.log = matchLog

\* the winner of a finished room, whose alive flag the end of the match
\* cleared, is connected and may send game_over
C36_Witness ==
    \E s \in Open : \E i \in RoomIdxs :
        /\ FindRoomIdx(multiRooms, s) = i
        /\ multiRooms[i].status = "finished"
        /\ ~PlayerOf(multiRooms[i], s).alive
        /\ PlayerOf(multiRooms[i], s).rank = 1

\* the number of roster members whose alive flag is true
AliveCount(room) == Cardinality({k \in 1..Len(room.players) : room.players[k].alive})

\* C37: while a battle room's status is playing, its alive-player count equals
\* the number of roster members whose alive flag is true, and a roster member
\* has rank null exactly when it is alive.
C37_AliveCountMatches ==
    \A i \in RoomIdxs :
        multiRooms[i].status = "playing" =>
            /\ multiRooms[i].alivePlayers = AliveCount(multiRooms[i])
            /\ \A k \in 1..Len(multiRooms[i].players) :
                   (multiRooms[i].players[k].rank = NULL) <=> multiRooms[i].players[k].alive

\* a room being played with an eliminated member and two members alive
C37_Witness ==
    \E i \in RoomIdxs :
        /\ multiRooms[i].status = "playing"
        /\ AliveCount(multiRooms[i]) = 2
        /\ \E k \in 1..Len(multiRooms[i].players) : multiRooms[i].players[k].rank # NULL

\* C38: a connection is on the roster of at most one battle room and of at most
\* one duel room at any time, for any sequence of create and join requests.
C38_OneRoomPerConnection ==
    \A s \in DOMAIN conn :
        Cardinality(MultiRoomsOf(s)) <= 1 /\ Cardinality(DuelRoomsOf(s)) <= 1

\* C39: in every battle room whose status is waiting, every roster member has
\* alive = true and rank = null: eliminations are recorded only while the room
\* is playing.
C39_WaitingRoomsAllAlive ==
    \A i \in RoomIdxs :
        multiRooms[i].status = "waiting" =>
            \A k \in 1..Len(multiRooms[i].players) :
                multiRooms[i].players[k].alive /\ multiRooms[i].players[k].rank = NULL

\* C40: if every alive player of a playing battle room eventually sends
\* game_over, leaves or disconnects, the room eventually reaches status finished
\* or is deleted; it does not stay in status playing forever.  A room being
\* played changes only when an alive member's connection sends or closes, and
\* its roster empties only when every member's connection leaves: so once all
\* its alive members have disconnected the room must have ended, that is, a room
\* being played has an alive member whose connection is not closed.
C40_PlayingRoomCanEnd ==
    \A i \in RoomIdxs :
        multiRooms[i].status = "playing" =>
            \E k \in 1..Len(multiRooms[i].players) :
                /\ multiRooms[i].players[k].alive
                /\ conn[multiRooms[i].players[k].sid] # "closed"

\* the column offsets +1, -1, +2, -2, ... up to magnitude w, in this order
KickOffsets(w) == [k \in 1..(2 * w) |-> IF k % 2 = 1 THEN (k + 1) \div 2 ELSE -(k \div 2)]

\* C34: rotate(dir) tries the column offsets +1, -1, +2, -2, ... in alternating
\* order up to a magnitude equal to the piece's width, and reverts the rotation
\* only if the rotated piece collides at the original column and at every one of
\* these offsets.
C34_KickTriesEveryOffset ==
    Started =>
        \A dir \in Dirs :
            LET turned  == rotateMatrix(game.piece, dir)
                offsets == KickOffsets(Len(game.piece[1]))
                Fits(o) == ~collide(game.board, turned, [game.pos EXCEPT !.x = @ + o])
                fitting == {k \in 1..Len(offsets) : Fits(offsets[k])}
                after   == rotate(game, dir).game
            IN  IF Fits(0)
                THEN after.piece = turned /\ after.pos = game.pos
                ELSE IF fitting # {}
                THEN /\ after.piece = turned
                     /\ after.pos = [game.pos EXCEPT !.x = @ + offsets[FirstIdx(fitting)]]
                ELSE after.piece = game.piece /\ after.pos = game.pos

\* C32: two piece simulation engines created with the same seed generate the
\* same sequence of pieces (the same shape at every index), whatever inputs each
\* player applies to its own board: the first two pieces of two engines
\* constructed with one seed are the same, and so is the piece that any two
\* engines holding the same pieces generate next.
C32_SameSeedSamePieces ==
    /\ \A seed \in Seeds :
           \A n1 \in PieceDraws, p1 \in PieceDraws, n2 \in PieceDraws, p2 \in PieceDraws :
               LET one == start(newTetrisGame(seed), n1, p1).game
                   two == start(newTetrisGame(seed), n2, p2).game
               IN  one.piece = two.piece /\ one.nextPiece = two.nextPiece
    /\ Started =>
           \A id1 \in PieceDraws, id2 \in PieceDraws :
               LockPiece(game, id1).game.nextPiece = LockPiece(game, id2).game.nextPiece

\* C33: once a game's game-over flag is set (by top-out or from outside), the
\* next and every later scheduled loop tick changes neither the board, the
\* active piece, the position nor the score, and schedules no further tick.
C33_TickAfterGameOverIsNoOp ==
    game.gameOver =>
        \A dt \in Deltas, id \in PieceDraws :
            LET out == loop(game, game.lastTime + dt, id)
            IN  /\ out.game.board = game.board
                /\ out.game.piece = game.piece
                /\ out.game.pos = game.pos
                /\ out.game.score = game.score
                /\ out.events = <<>>
                /\ ~out.again

\* a game that topped out in a loop tick, under garbage, with the tick that
\* this last tick requested still scheduled
C33_Witness ==
    /\ game.gameOver
    /\ pending > 0
    /\ game.lastTime > DropInterval
    /\ HasCell(8)

\* the garbage actions among the actions emitted
GarbageActions(sent) == SelectSeq(sent, LAMBDA m : m.type = "garbage")

\* the actions emitted by the step
Emitted == SubSeq(outbox', Len(outbox) + 1, Len(outbox'))

\* C31: on each score report the client emits a number of garbage units equal
\* to floor(score/200) - floor(previousReportedScore/200), as one garbage action
\* when this is positive and no garbage action otherwise (a climb from 180 to
\* 220 yields exactly one unit), with the previous reported score starting at 0
\* for each new game.
C31_GarbagePerThresholdCrossed ==
    [][calls' = calls + 1 =>
          IF outbox' = <<>>
          THEN lastSentScore' = 0
          ELSE LET score == Emitted[1].value
                   units == (score \div 200) - (lastSentScore \div 200)
               IN  /\ Emitted[1].type = "score"
                   /\ Len(Emitted) = 1 + Len(GarbageActions(Emitted))
                   /\ GarbageActions(Emitted) =
                          IF units > 0 THEN <<[type |-> "garbage", value |-> units]>> ELSE <<>>
                   /\ lastSentScore' = score
                   /\ (lastSentScore = 180 /\ score = 220) =>
                          GarbageActions(Emitted) = <<[type |-> "garbage", value |-> 1]>>]_vars

\* a game has reported 0 at its reset, then 180, then 220 and 610: the climb
\* to 220 emitted one garbage action of one unit, the climb to 610 one of two
C31_Witness ==
    /\ lastSentScore = 610
    /\ outbox = <<[type |-> "score", value |-> 0],
                  [type |-> "score", value |-> 180],
                  [type |-> "score", value |-> 220], [type |-> "garbage", value |-> 1],
                  [type |-> "score", value |-> 610], [type |-> "garbage", value |-> 2]>>

====
